---- MODULE Spec2Model ----
(***************************************************************************)
(* Model of blob_downloader.py: the command-line dispatcher (main), the    *)
(* paginated container listing (list_blobs), the date normalisation and    *)
(* filtering of the download-* commands, and the sequential downloads.     *)
(*                                                                         *)
(* Strings whose characters the code inspects (the YYYY-MM-DD arguments)   *)
(* are sequences of one-character strings.  A Last-Modified text is a      *)
(* record of the fields an RFC 1123 date is written with.  The storage     *)
(* service is the environment: a static, finite container served in at     *)
(* most MaxPages pages, any request of which may fail.                     *)
(***************************************************************************)
EXTENDS Integers, Sequences, FiniteSets, TLC

\* ------------------------------------------------------------------ bounds
\* Pages the container is served in, and blobs the container holds.
MaxPages == 3
MaxBlobs == 3

\* ------------------------------------------------------------- python values
\* Python's None where a string is expected (findtext of a missing element).
None == "None"

\* Python truthiness of an optional string: None and "" are falsy.
Truthy(s) == s # None /\ s # ""

\* Python's None where a date is expected.
NoDate == [year |-> 0, month |-> 0, day |-> 0]

MkDate(y, m, d) == [year |-> y, month |-> m, day |-> d]

\* ------------------------------------------------------------ calendar (datetime)
IsLeap(y) == (y % 4 = 0) /\ ((y % 100 # 0) \/ (y % 400 = 0))

DaysInMonth(y, m) ==
  IF m = 2 THEN (IF IsLeap(y) THEN 29 ELSE 28)
  ELSE IF m \in {4, 6, 9, 11} THEN 30 ELSE 31

\* date.__lt__ / __le__: comparison of (year, month, day).
DateLt(a, b) ==
  \/ a.year < b.year
  \/ a.year = b.year /\ a.month < b.month
  \/ a.year = b.year /\ a.month = b.month /\ a.day < b.day

DateLe(a, b) == a = b \/ DateLt(a, b)

NextDay(dt) ==
  IF dt.day < DaysInMonth(dt.year, dt.month) THEN MkDate(dt.year, dt.month, dt.day + 1)
  ELSE IF dt.month < 12 THEN MkDate(dt.year, dt.month + 1, 1)
  ELSE MkDate(dt.year + 1, 1, 1)

PrevDay(dt) ==
  IF dt.day > 1 THEN MkDate(dt.year, dt.month, dt.day - 1)
  ELSE IF dt.month > 1 THEN MkDate(dt.year, dt.month - 1, DaysInMonth(dt.year, dt.month - 1))
  ELSE MkDate(dt.year - 1, 12, 31)

\* date + timedelta(days = n), for the shifts a UTC offset can cause.
AddDays(dt, n) ==
  IF n = 0 THEN dt
  ELSE IF n = 1 THEN NextDay(dt)
  ELSE IF n = 0 - 1 THEN PrevDay(dt)
  ELSE IF n = 2 THEN NextDay(NextDay(dt))
  ELSE PrevDay(PrevDay(dt))

\* ------------------------------------------------- YYYY-MM-DD arguments (strptime)
DigitChars == <<"0", "1", "2", "3", "4", "5", "6", "7", "8", "9">>

IsDigit(c) == \E i \in 1..10 : DigitChars[i] = c

DigitVal(c) == (CHOOSE i \in 1..10 : DigitChars[i] = c) - 1

IsDigit19(c) == IsDigit(c) /\ c # "0"

\* The text after position n.
Drop(s, n) == SubSeq(s, n + 1, Len(s))

\* %m is 1[0-2]|0[1-9]|[1-9] and must be followed by "-": the length matched, 0 for none.
MonthLen(s) ==
  IF /\ Len(s) >= 3
     /\ \/ s[1] = "1" /\ s[2] \in {"0", "1", "2"}
        \/ s[1] = "0" /\ IsDigit19(s[2])
     /\ s[3] = "-"
  THEN 2
  ELSE IF Len(s) >= 2 /\ IsDigit19(s[1]) /\ s[2] = "-" THEN 1
  ELSE 0

\* %d is 3[01]|[12]\d|0[1-9]|[1-9]| [1-9]: the length of the first alternative that
\* matches a prefix, 0 for none.
DayLen(s) ==
  IF /\ Len(s) >= 2
     /\ \/ s[1] = "3" /\ s[2] \in {"0", "1"}
        \/ s[1] \in {"1", "2"} /\ IsDigit(s[2])
        \/ s[1] = "0" /\ IsDigit19(s[2])
  THEN 2
  ELSE IF Len(s) >= 1 /\ IsDigit19(s[1]) THEN 1
  ELSE IF Len(s) >= 2 /\ s[1] = " " /\ IsDigit19(s[2]) THEN 2
  ELSE 0

\* int() of a run of one or two digits, a leading space skipped.
Int2(s) ==
  IF Len(s) = 1 THEN DigitVal(s[1])
  ELSE IF s[1] = " " THEN DigitVal(s[2])
  ELSE 10 * DigitVal(s[1]) + DigitVal(s[2])

Int4(s) == 1000 * DigitVal(s[1]) + 100 * DigitVal(s[2]) + 10 * DigitVal(s[3]) + DigitVal(s[4])

StrptimeFail == [ok |-> FALSE, date |-> NoDate]

\* datetime.strptime(value, "%Y-%m-%d").date(): the format's regular expression matched
\* at the start, no unconverted data left, and the fields a date of the calendar.
Strptime(value) ==
  IF ~ (Len(value) >= 5 /\ (\A i \in 1..4 : IsDigit(value[i])) /\ value[5] = "-")
  THEN StrptimeFail
  ELSE
    LET afterYear == Drop(value, 5)
        ml == MonthLen(afterYear)
    IN IF ml = 0 THEN StrptimeFail
       ELSE
         LET afterMonth == Drop(afterYear, ml + 1)
             dl == DayLen(afterMonth)
         IN IF dl = 0 \/ dl # Len(afterMonth) THEN StrptimeFail
            ELSE
              LET y == Int4(value)
                  m == Int2(SubSeq(afterYear, 1, ml))
                  d == Int2(afterMonth)
              IN IF y < 1 \/ d > DaysInMonth(y, m) THEN StrptimeFail
                 ELSE [ok |-> TRUE, date |-> MkDate(y, m, d)]

\* The text of the ValueError _parse_yyyy_mm_dd raises.
InvalidDateMessage(value) == <<"Invalid date '">> \o value \o <<"'. Expected YYYY-MM-DD.">>

\* _parse_yyyy_mm_dd: the date, or the ValueError with its message.
ParseYyyyMmDd(value) ==
  LET r == Strptime(value)
  IN IF r.ok THEN [exc |-> "", msg |-> <<>>, date |-> r.date]
     ELSE [exc |-> "ValueError", msg |-> InvalidDateMessage(value), date |-> NoDate]

\* ------------------------------------------- Last-Modified texts (parsedate_to_datetime)
\* A Last-Modified text.  form "None" is Python's None (no such element), "" the empty
\* string, "rfc1123" a text of the shape "Wed, 11 Feb 2026 12:00:00 GMT" with the fields
\* as written, "other" any text of another shape (an ISO 8601 timestamp, say).
\* zone is the text after the time: "" (nothing), "GMT", or "num" for a numeric
\* offset, sign hh mm.
MkZone(text, sign, hh, mm) == [text |-> text, sign |-> sign, hh |-> hh, mm |-> mm]

NoZone == MkZone("", 1, 0, 0)
GMT == MkZone("GMT", 1, 0, 0)

MkText(form, d, mon, y, hh, mm, ss, zone) ==
  [form |-> form, day |-> d, month |-> mon, year |-> y,
   hh |-> hh, mm |-> mm, ss |-> ss, zone |-> zone]

TextNone == MkText("None", 0, 0, 0, 0, 0, 0, NoZone)
TextEmpty == MkText("", 0, 0, 0, 0, 0, 0, NoZone)
TextOther == MkText("other", 0, 0, 0, 0, 0, 0, NoZone)

\* `if not blob.get("last_modified")`: None and "" are falsy.
TextTruthy(t) == t.form # "None" /\ t.form # ""

DatetimeFail == [exc |-> "ValueError", date |-> NoDate, secs |-> 0, aware |-> FALSE, offset |-> 0]

\* email.utils.parsedate_to_datetime: a ValueError for a text it cannot parse or a
\* day the month does not have; a naive datetime when the text has no zone or the
\* zone "-0000"; else an aware one with the written offset (seconds east of UTC).
ParseLastModified(t) ==
  IF t.form # "rfc1123" \/ t.day < 1 \/ t.day > DaysInMonth(t.year, t.month)
  THEN DatetimeFail
  ELSE
    LET off == t.zone.sign * (t.zone.hh * 3600 + t.zone.mm * 60)
        naive == \/ t.zone.text = ""
                 \/ t.zone.text = "num" /\ off = 0 /\ t.zone.sign < 0
    IN [exc |-> "", date |-> MkDate(t.year, t.month, t.day),
        secs |-> t.hh * 3600 + t.mm * 60 + t.ss,
        aware |-> ~ naive, offset |-> IF naive \/ t.zone.text = "GMT" THEN 0 ELSE off]

\* BlobModifiedDate without the conversion to UTC: the date as written.
BlobModifiedDateAsWritten(blob) ==
  IF ~ TextTruthy(blob.last_modified) THEN [exc |-> "", date |-> NoDate]
  ELSE LET dt == ParseLastModified(blob.last_modified)
       IN IF dt.exc # "" THEN [exc |-> dt.exc, date |-> NoDate]
          ELSE [exc |-> "", date |-> dt.date]

\* _blob_modified_date: None for a missing or empty last_modified; the ValueError of
\* the parse, which it does not catch; else the date of the instant in UTC, a naive
\* datetime being taken as UTC.
BlobModifiedDate(blob) ==
  IF ~ TextTruthy(blob.last_modified) THEN [exc |-> "", date |-> NoDate]
  ELSE
    LET dt == ParseLastModified(blob.last_modified)
    IN IF dt.exc # "" THEN [exc |-> dt.exc, date |-> NoDate]
       ELSE
         LET offset == IF dt.aware THEN dt.offset ELSE 0
         IN [exc |-> "", date |-> AddDays(dt.date, (dt.secs - offset) \div 86400)]

\* int(size) for a Content-Length text of decimal digits; any other character is a
\* ValueError.
AllDigits(s) == \A i \in 1..Len(s) : IsDigit(s[i])

RECURSIVE IntOf(_)
IntOf(s) == IF Len(s) = 0 THEN 0 ELSE 10 * IntOf(SubSeq(s, 1, Len(s) - 1)) + DigitVal(s[Len(s)])

\* ------------------------------------------------------------------ inputs
\* Date arguments given on the command line.
Arg_2026_02_11 == <<"2", "0", "2", "6", "-", "0", "2", "-", "1", "1">>
Arg_2026_2_12 == <<"2", "0", "2", "6", "-", "2", "-", "1", "2">>
Arg_02_11_2026 == <<"0", "2", "-", "1", "1", "-", "2", "0", "2", "6">>
Arg_2026_02_30 == <<"2", "0", "2", "6", "-", "0", "2", "-", "3", "0">>

DateArgs == {Arg_2026_02_11, Arg_2026_2_12, Arg_02_11_2026, Arg_2026_02_30}

Commands == {"list", "download-all", "download-since", "download-date", "download-range"}

\* The command lines: the sub-command and its positional date arguments.
CommandLines ==
  {<<c, <<>>>> : c \in {"list", "download-all"}}
  \cup {<<c, <<a>>>> : c \in {"download-since", "download-date"}, a \in DateArgs}
  \cup {<<"download-range", <<a, b>>>> : a \in DateArgs, b \in DateArgs}

\* -o / --output at its default.
DestDir == "downloads"

\* The <Blob> elements the container can hold: the name, whether <Properties> is
\* there, the Last-Modified text and the Content-Length text (has: the element is
\* there).
MkEntry(name, props, lm, hasLen, len) ==
  [name |-> name, props |-> props, last_modified |-> lm,
   content_length |-> [has |-> hasLen, text |-> len]]

\* The container's entries, in the order of their names (the order the service
\* lists them in).
EntryList ==
  << \* "Wed, 11 Feb 2026 12:00:00 GMT"
     MkEntry(<<"a.csv">>, TRUE, MkText("rfc1123", 11, 2, 2026, 12, 0, 0, GMT), TRUE, <<"2", "0", "4", "8">>),
     \* "Wed, 11 Feb 2026 23:30:00 -0500": 12 Feb in UTC
     MkEntry(<<"b", "b.csv">>, TRUE, MkText("rfc1123", 11, 2, 2026, 23, 30, 0, MkZone("num", 0 - 1, 5, 0)), TRUE, <<"1", "0">>),
     \* "Thu, 12 Feb 2026 00:30:00 +0100": 11 Feb in UTC
     MkEntry(<<"c.csv">>, TRUE, MkText("rfc1123", 12, 2, 2026, 0, 30, 0, MkZone("num", 1, 1, 0)), TRUE, <<"7">>),
     \* "12 Feb 2026 23:59:59": no zone
     MkEntry(<<"d.csv">>, TRUE, MkText("rfc1123", 12, 2, 2026, 23, 59, 59, NoZone), FALSE, <<>>),
     \* "2026-02-11T00:00:00Z": not an HTTP date
     MkEntry(<<"e.csv">>, TRUE, TextOther, TRUE, <<"5">>),
     \* no <Properties>
     MkEntry(<<"f.csv">>, FALSE, TextNone, FALSE, <<>>),
     \* <Last-Modified/> and <Content-Length/> empty
     MkEntry(<<"g.csv">>, TRUE, TextEmpty, TRUE, <<>>),
     \* Content-Length "12x"
     MkEntry(<<"h.csv">>, TRUE, MkText("rfc1123", 11, 2, 2026, 0, 0, 0, GMT), TRUE, <<"1", "2", "x">>) >>

Entries == {EntryList[i] : i \in 1..Len(EntryList)}

\* The continuation token the service returns with page k.
Token(k) == "marker-" \o ToString(k)

\* ------------------------------------------------------------------ state
VARIABLES
  command,      \* args.command
  args,         \* the positional date arguments
  pc,           \* where the program is
  marker,       \* list_blobs: marker
  blobs,        \* list_blobs: blobs, the records accumulated so far
  cutoff,       \* download_since: cutoff
  target,       \* download_date: target
  start,        \* download_range: start
  end,          \* download_range: end
  listing,      \* the caller's blobs: what list_blobs returned
  fi,           \* the comprehension's position in blobs
  modified_date,\* the date _blob_modified_date last returned
  filtered,     \* the comprehension's list as it is built, then the list the loop iterates
  di,           \* the download loop's position in filtered
  outstanding,  \* requests sent and not yet answered
  log,          \* every request and response, in order
  files,        \* what is on disk under the output directory
  stdout,       \* lines printed
  exc,          \* the exception that ended the run
  stderr,       \* how it was reported
  exit_code     \* -1 while running

vars == <<command, args, pc, marker, blobs, cutoff, target, start, end, listing, fi, modified_date,
          filtered, di, outstanding, log, files, stdout, exc, stderr, exit_code>>

NoExc == [class |-> "", msg |-> <<>>]

Running == 0 - 1

Init ==
  /\ \E cl \in CommandLines : command = cl[1] /\ args = cl[2]
  /\ pc = "main"
  /\ marker = None
  /\ blobs = <<>>
  /\ cutoff = NoDate
  /\ target = NoDate
  /\ start = NoDate
  /\ end = NoDate
  /\ listing = <<>>
  /\ fi = 1
  /\ modified_date = NoDate
  /\ filtered = <<>>
  /\ di = 1
  /\ outstanding = {}
  /\ log = <<>>
  /\ files = {}
  /\ stdout = <<>>
  /\ exc = NoExc
  /\ stderr = [kind |-> "", msg |-> <<>>]
  /\ exit_code = Running

\* ------------------------------------------------------------------ main's except
\* `except ValueError as exc: parser.error(str(exc))`: the classes caught.
IsValueError(cls) == cls = "ValueError"

\* An exception raised inside main's try: a ValueError becomes parser.error (usage and
\* message on stderr, exit status 2); anything else leaves as a traceback, status 1.
Raise(cls, msg) ==
  /\ pc' = "exit"
  /\ exc' = [class |-> cls, msg |-> msg]
  /\ stderr' = [kind |-> IF IsValueError(cls) THEN "usage" ELSE "traceback", msg |-> msg]
  /\ exit_code' = IF IsValueError(cls) THEN 2 ELSE 1

NoRaise == UNCHANGED <<exc, stderr, exit_code>>

\* ------------------------------------------------------------------ requests
MkEvent(ev, kind, m, name, status, page) ==
  [ev |-> ev, kind |-> kind, marker |-> m, name |-> name, status |-> status, page |-> page]

\* ListRequestOf with the marker never appended to the URL.
ListRequestWithoutMarker(m) == [kind |-> "list", marker |-> None, name |-> <<>>]

\* The listing URL: &marker= is appended only for a truthy marker.
ListRequestOf(m) == [kind |-> "list", marker |-> IF Truthy(m) THEN m ELSE None, name |-> <<>>]

BlobRequestOf(name) == [kind |-> "blob", marker |-> None, name |-> name]

Send(req) ==
  /\ outstanding' = outstanding \cup {req}
  /\ log' = Append(log, MkEvent("request", req.kind, req.marker, req.name, "", <<>>))

Receive(req, status, m, page) ==
  /\ outstanding' = outstanding \ {req}
  /\ log' = Append(log, MkEvent("response", req.kind, m, req.name, status, page))

\* ------------------------------------------------------------------ main
\* main, command "list": list_blobs(sas_url) is called.
MainList ==
  /\ pc = "main" /\ command = "list"
  /\ pc' = "list_blobs" /\ marker' = None /\ blobs' = <<>>
  /\ NoRaise
  /\ UNCHANGED <<command, args, cutoff, target, start, end, listing, fi, modified_date, filtered, di,
                 outstanding, log, files, stdout>>

\* download_all up to its call of list_blobs.
DownloadAll ==
  /\ pc = "main" /\ command = "download-all"
  /\ pc' = "list_blobs" /\ marker' = None /\ blobs' = <<>>
  /\ NoRaise
  /\ UNCHANGED <<command, args, cutoff, target, start, end, listing, fi, modified_date, filtered, di,
                 outstanding, log, files, stdout>>

\* download_since up to its call of list_blobs: cutoff = _parse_yyyy_mm_dd(since).
DownloadSince ==
  /\ pc = "main" /\ command = "download-since"
  /\ LET r == ParseYyyyMmDd(args[1])
     IN IF r.exc # ""
        THEN Raise(r.exc, r.msg) /\ UNCHANGED <<cutoff, marker, blobs>>
        ELSE /\ cutoff' = r.date
             /\ pc' = "list_blobs" /\ marker' = None /\ blobs' = <<>>
             /\ NoRaise
  /\ UNCHANGED <<command, args, target, start, end, listing, fi, modified_date, filtered, di,
                 outstanding, log, files, stdout>>

\* download_date up to its call of list_blobs: target = _parse_yyyy_mm_dd(target_date).
DownloadDate ==
  /\ pc = "main" /\ command = "download-date"
  /\ LET r == ParseYyyyMmDd(args[1])
     IN IF r.exc # ""
        THEN Raise(r.exc, r.msg) /\ UNCHANGED <<target, marker, blobs>>
        ELSE /\ target' = r.date
             /\ pc' = "list_blobs" /\ marker' = None /\ blobs' = <<>>
             /\ NoRaise
  /\ UNCHANGED <<command, args, cutoff, start, end, listing, fi, modified_date, filtered, di,
                 outstanding, log, files, stdout>>

EndBeforeStartMessage == <<"End date must be the same as or after start date.">>

\* download_range up to its call of list_blobs: both dates parsed, start first, then
\* the end < start check.
DownloadRange ==
  /\ pc = "main" /\ command = "download-range"
  /\ LET s == ParseYyyyMmDd(args[1])
         e == ParseYyyyMmDd(args[2])
     IN IF s.exc # ""
        THEN Raise(s.exc, s.msg) /\ UNCHANGED <<start, end, marker, blobs>>
        ELSE IF e.exc # ""
        THEN Raise(e.exc, e.msg) /\ start' = s.date /\ UNCHANGED <<end, marker, blobs>>
        ELSE IF DateLt(e.date, s.date)
        THEN /\ Raise("ValueError", EndBeforeStartMessage)
             /\ start' = s.date /\ end' = e.date /\ UNCHANGED <<marker, blobs>>
        ELSE /\ start' = s.date /\ end' = e.date
             /\ pc' = "list_blobs" /\ marker' = None /\ blobs' = <<>>
             /\ NoRaise
  /\ UNCHANGED <<command, args, cutoff, target, listing, fi, modified_date, filtered, di,
                 outstanding, log, files, stdout>>

\* ------------------------------------------------------------------ list_blobs
\* The top of the while loop: the URL is built and SESSION.get is called.
ListRequest ==
  /\ pc = "list_blobs"
  /\ Send(ListRequestOf(marker))
  /\ pc' = "list_wait"
  /\ NoRaise
  /\ UNCHANGED <<command, args, marker, blobs, cutoff, target, start, end, listing, fi, modified_date,
                 filtered, di, files, stdout>>

\* Pages the service has answered so far.
PagesServed == Cardinality({i \in 1..Len(log) :
                 log[i].ev = "response" /\ log[i].kind = "list" /\ log[i].status = "ok"})

\* The position of a name in the container.
Rank(name) == CHOOSE i \in 1..Len(EntryList) : EntryList[i].name = name

\* The bodies the next page can have: entries of the container after those already
\* listed, in the container's order, the listing holding at most MaxBlobs.
PageBodies ==
  LET from == IF blobs = <<>> THEN 1 ELSE Rank(blobs[Len(blobs)].name) + 1
      avail == from..Len(EntryList)
      picks == {S \in SUBSET avail : Cardinality(S) <= MaxBlobs - Len(blobs)}
      InOrder(S) == CHOOSE q \in [1..Cardinality(S) -> S] :
                      \A i, j \in 1..Cardinality(S) : i < j => q[i] < q[j]
  IN {[i \in 1..Cardinality(S) |-> EntryList[InOrder(S)[i]]] : S \in picks}

\* The NextMarker page k can carry: none, an empty one, or the token of page k + 1
\* while the container has more pages.
NextMarkers(k) == {None, ""} \cup (IF k < MaxPages THEN {Token(k)} ELSE {})

\* `int(size) if size else 0`
SizeRaises(e) ==
  e.props /\ e.content_length.has /\ e.content_length.text # <<>>
  /\ ~ AllDigits(e.content_length.text)

\* The dict list_blobs appends for one <Blob>.
BlobOf(e) ==
  [name |-> e.name,
   last_modified |-> IF e.props THEN e.last_modified ELSE TextNone,
   size |-> IF e.props /\ e.content_length.has /\ e.content_length.text # <<>>
            THEN IntOf(e.content_length.text) ELSE 0]

PageBlobs(body) == [i \in 1..Len(body) |-> BlobOf(body[i])]

\* `if not next_marker: break`
LastPage(next_marker) == ~ Truthy(next_marker)

\* Accumulate with the list assigned instead of extended.
AccumulateReplaces(acc, page) == page

\* The records of a parsed page are added to those of the pages before.
Accumulate(acc, page) == acc \o page

\* A page arrives with a success status and well-formed XML: its blobs are appended,
\* and the loop ends or continues with the page's NextMarker.
ListResponseOk ==
  /\ pc = "list_wait"
  /\ \E req \in outstanding, body \in PageBodies, next_marker \in NextMarkers(PagesServed + 1) :
       /\ req.kind = "list"
       /\ Receive(req, "ok", next_marker, body)
       /\ IF \E i \in 1..Len(body) : SizeRaises(body[i])
          THEN /\ Raise("ValueError", <<"invalid literal for int() with base 10">>)
               /\ UNCHANGED <<marker, blobs, listing>>
          ELSE /\ blobs' = Accumulate(blobs, PageBlobs(body))
               /\ NoRaise
               /\ IF LastPage(next_marker)
                  THEN pc' = "listed" /\ listing' = blobs' /\ UNCHANGED marker
                  ELSE pc' = "list_blobs" /\ marker' = next_marker /\ UNCHANGED listing
  /\ UNCHANGED <<command, args, cutoff, target, start, end, fi, modified_date, filtered, di,
                 files, stdout>>

\* ListFailure caught inside the loop, the records accumulated so far returned.
ListFailureReturnsPartial(cls, msg) == pc' = "listed" /\ listing' = blobs /\ NoRaise

\* An exception inside list_blobs: it propagates, and the caller's blobs is never
\* assigned.
ListFailure(cls, msg) == Raise(cls, msg) /\ UNCHANGED listing

\* resp.raise_for_status() raises for a non-success status.
ListResponseHttpError ==
  /\ pc = "list_wait"
  /\ \E req \in outstanding :
       /\ req.kind = "list"
       /\ Receive(req, "http_error", None, <<>>)
  /\ ListFailure("HTTPError", <<"status">>)
  /\ UNCHANGED <<command, args, marker, blobs, cutoff, target, start, end, fi, modified_date,
                 filtered, di, files, stdout>>

\* SESSION.get raises: no connection, or the timeout.
ListConnectionError ==
  /\ pc = "list_wait"
  /\ \E req \in outstanding :
       /\ req.kind = "list"
       /\ Receive(req, "connection_error", None, <<>>)
  /\ ListFailure("ConnectionError", <<"connection">>)
  /\ UNCHANGED <<command, args, marker, blobs, cutoff, target, start, end, fi, modified_date,
                 filtered, di, files, stdout>>

\* ElementTree.fromstring raises ParseError for a body that is not well-formed XML.
ListResponseBadXml ==
  /\ pc = "list_wait"
  /\ \E req \in outstanding :
       /\ req.kind = "list"
       /\ Receive(req, "bad_xml", None, <<>>)
  /\ ListFailure("ParseError", <<"not well-formed">>)
  /\ UNCHANGED <<command, args, marker, blobs, cutoff, target, start, end, fi, modified_date,
                 filtered, di, files, stdout>>

\* ------------------------------------------------------------------ filtering
ParsedateMessage == <<"Invalid date value or format">>

\* download_since's comprehension, one record:
\* (modified_date := _blob_modified_date(b)) and modified_date >= cutoff
KeepSince(d, c) == d # NoDate /\ DateLe(c, d)

\* download_date's comprehension, one record: _blob_modified_date(b) == target
KeepDate(d, t) == d = t

\* download_range's comprehension, one record:
\* (modified_date := _blob_modified_date(b)) and start <= modified_date <= end
KeepRange(d, s, e) == d # NoDate /\ DateLe(s, d) /\ DateLe(d, e)

\* One step of a comprehension, r being what _blob_modified_date gave for the record
\* and keep the comprehension's condition: the record is kept or not; the ValueError
\* of an unparseable Last-Modified leaves the command.
FilterStep(r, keep) ==
  /\ IF r.exc # ""
     THEN /\ Raise(r.exc, ParsedateMessage)
          /\ UNCHANGED <<fi, modified_date, filtered>>
     ELSE /\ modified_date' = r.date
          /\ filtered' = IF keep THEN Append(filtered, listing[fi]) ELSE filtered
          /\ fi' = fi + 1
          /\ UNCHANGED pc
          /\ NoRaise
  /\ UNCHANGED <<command, args, marker, blobs, cutoff, target, start, end, listing, di,
                 outstanding, log, files, stdout>>

FilterSince ==
  /\ pc = "listed" /\ command = "download-since" /\ fi <= Len(listing)
  /\ LET r == BlobModifiedDate(listing[fi]) IN FilterStep(r, KeepSince(r.date, cutoff))

FilterDate ==
  /\ pc = "listed" /\ command = "download-date" /\ fi <= Len(listing)
  /\ LET r == BlobModifiedDate(listing[fi]) IN FilterStep(r, KeepDate(r.date, target))

FilterRange ==
  /\ pc = "listed" /\ command = "download-range" /\ fi <= Len(listing)
  /\ LET r == BlobModifiedDate(listing[fi]) IN FilterStep(r, KeepRange(r.date, start, end))

\* _download_filtered up to its loop: "Found n blob(s) <label>. Downloading..."
DownloadFiltered ==
  /\ pc = "listed" /\ command \in {"download-since", "download-date", "download-range"}
  /\ fi > Len(listing)
  /\ stdout' = Append(stdout, "Found")
  /\ pc' = "download" /\ di' = 1
  /\ NoRaise
  /\ UNCHANGED <<command, args, marker, blobs, cutoff, target, start, end, listing, fi,
                 modified_date, filtered, outstanding, log, files>>

\* download_all after list_blobs returned: every blob of the listing is iterated.
DownloadAllFound ==
  /\ pc = "listed" /\ command = "download-all"
  /\ filtered' = listing
  /\ stdout' = Append(stdout, "Found")
  /\ pc' = "download" /\ di' = 1
  /\ NoRaise
  /\ UNCHANGED <<command, args, marker, blobs, cutoff, target, start, end, listing, fi,
                 modified_date, outstanding, log, files>>

\* main, command "list", after list_blobs returned: the table and the total.
PrintListing ==
  /\ pc = "listed" /\ command = "list"
  /\ stdout' = stdout \o <<"header", "rule">> \o [i \in 1..Len(listing) |-> "row"] \o <<"Total">>
  /\ pc' = "exit" /\ exit_code' = 0
  /\ UNCHANGED <<exc, stderr>>
  /\ UNCHANGED <<command, args, marker, blobs, cutoff, target, start, end, listing, fi,
                 modified_date, filtered, di, outstanding, log, files>>

\* ------------------------------------------------------------------ downloads
\* os.path.join(dest_dir, blob_name)
OutPath(name) == <<DestDir>> \o name

\* os.path.dirname(out_path) or dest_dir
OutDir(name) == SubSeq(OutPath(name), 1, Len(name))

Dir(path) == [path |-> path, kind |-> "dir"]
File(path) == [path |-> path, kind |-> "file"]
Partial(path) == [path |-> path, kind |-> "partial"]

\* The write of out_path replaces whatever file was there.
Written(f) == {x \in files : x.path # f.path} \cup {f}

\* The body of the download loop up to SESSION.get: the directory exists and the
\* request for the blob is sent.
FetchRequest ==
  /\ pc = "download" /\ di <= Len(filtered)
  /\ files' = files \cup {Dir(OutDir(filtered[di].name))}
  /\ Send(BlobRequestOf(filtered[di].name))
  /\ pc' = "fetch_wait"
  /\ NoRaise
  /\ UNCHANGED <<command, args, marker, blobs, cutoff, target, start, end, listing, fi,
                 modified_date, filtered, di, stdout>>

\* Advance stepping over a record.
AdvanceSkips(i) == i + 2

\* The loop's next position after a blob was written.
Advance(i) == i + 1

\* The blob arrives whole: the file is written, its line printed, the loop goes on.
FetchResponseOk ==
  /\ pc = "fetch_wait"
  /\ \E req \in outstanding :
       /\ req.kind = "blob"
       /\ Receive(req, "ok", None, <<>>)
       /\ files' = Written(File(OutPath(req.name)))
  /\ stdout' = Append(stdout, "->")
  /\ di' = Advance(di)
  /\ pc' = "download"
  /\ NoRaise
  /\ UNCHANGED <<command, args, marker, blobs, cutoff, target, start, end, listing, fi,
                 modified_date, filtered>>

\* FetchFailure caught inside the loop, which goes on with the next record.
FetchFailureSkips(cls, msg) == pc' = "download" /\ di' = di + 1 /\ NoRaise

\* An exception inside download_blob: it propagates out of the loop.
FetchFailure(cls, msg) == Raise(cls, msg) /\ UNCHANGED di

\* raise_for_status() raises before the file is opened.
FetchResponseHttpError ==
  /\ pc = "fetch_wait"
  /\ \E req \in outstanding :
       /\ req.kind = "blob"
       /\ Receive(req, "http_error", None, <<>>)
  /\ FetchFailure("HTTPError", <<"status">>)
  /\ UNCHANGED <<command, args, marker, blobs, cutoff, target, start, end, listing, fi,
                 modified_date, filtered, files, stdout>>

\* SESSION.get raises: no connection, or the timeout; the file is not opened.
FetchConnectionError ==
  /\ pc = "fetch_wait"
  /\ \E req \in outstanding :
       /\ req.kind = "blob"
       /\ Receive(req, "connection_error", None, <<>>)
  /\ FetchFailure("ConnectionError", <<"connection">>)
  /\ UNCHANGED <<command, args, marker, blobs, cutoff, target, start, end, listing, fi,
                 modified_date, filtered, files, stdout>>

\* The connection breaks inside iter_content: the file was opened and holds what had
\* arrived.
FetchStreamError ==
  /\ pc = "fetch_wait"
  /\ \E req \in outstanding :
       /\ req.kind = "blob"
       /\ Receive(req, "stream_error", None, <<>>)
       /\ files' = Written(Partial(OutPath(req.name)))
  /\ FetchFailure("ConnectionError", <<"connection">>)
  /\ UNCHANGED <<command, args, marker, blobs, cutoff, target, start, end, listing, fi,
                 modified_date, filtered, stdout>>

\* The loop is exhausted: "Done." and a normal exit.
Done ==
  /\ pc = "download" /\ di > Len(filtered)
  /\ stdout' = Append(stdout, "Done.")
  /\ pc' = "exit" /\ exit_code' = 0
  /\ UNCHANGED <<exc, stderr>>
  /\ UNCHANGED <<command, args, marker, blobs, cutoff, target, start, end, listing, fi,
                 modified_date, filtered, di, outstanding, log, files>>

\* ------------------------------------------------------------------ specification
Next ==
  \/ MainList
  \/ DownloadAll
  \/ DownloadSince
  \/ DownloadDate
  \/ DownloadRange
  \/ ListRequest
  \/ ListResponseOk
  \/ ListResponseHttpError
  \/ ListConnectionError
  \/ ListResponseBadXml
  \/ FilterSince
  \/ FilterDate
  \/ FilterRange
  \/ DownloadFiltered
  \/ DownloadAllFound
  \/ PrintListing
  \/ FetchRequest
  \/ FetchResponseOk
  \/ FetchResponseHttpError
  \/ FetchConnectionError
  \/ FetchStreamError
  \/ Done

Spec == Init /\ [][Next]_vars

\* list_blobs alone, as the "list" command runs it.
InitList == Init /\ command = "list"

NextList ==
  \/ MainList
  \/ ListRequest
  \/ ListResponseOk
  \/ ListResponseHttpError
  \/ ListConnectionError
  \/ ListResponseBadXml
  \/ PrintListing

\* The program is one thread of blocking calls, each with a timeout: a step that can
\* be taken is taken.
ListSpec == InitList /\ [][NextList]_vars /\ WF_vars(NextList)

\* ------------------------------------------------------------------ the log, read back
IsListRequest(i) == log[i].ev = "request" /\ log[i].kind = "list"
IsBlobRequest(i) == log[i].ev = "request" /\ log[i].kind = "blob"
IsListResponse(i) == log[i].ev = "response" /\ log[i].kind = "list"
IsBlobResponse(i) == log[i].ev = "response" /\ log[i].kind = "blob"

DateCommands == {"download-since", "download-date", "download-range"}
DownloadCommands == DateCommands \cup {"download-all"}

\* The positions of the blob requests, and the k-th of them.
BlobRequests == {i \in 1..Len(log) : IsBlobRequest(i)}

NthBlobRequest(k) ==
  CHOOSE i \in BlobRequests : Cardinality({j \in BlobRequests : j <= i}) = k

\* Every response was a success, and every page was of the listing's schema.
CleanRun ==
  \A i \in 1..Len(log) :
    log[i].ev = "response" =>
      /\ log[i].status = "ok"
      /\ \A k \in 1..Len(log[i].page) : ~ SizeRaises(log[i].page[k])

\* ------------------------------------------------------------------ C1
\* C1: the first listing request carries no marker; a listing request after the first
\* comes directly after a successful page whose NextMarker is non-empty, and carries
\* exactly that NextMarker; and the event after such a page, when there is one, is
\* that request.  So no page is requested before the page before it was received.
PaginationFollowsMarker ==
  /\ \A i \in 1..Len(log) :
       IsListRequest(i) =>
         IF \A j \in 1..(i - 1) : ~ IsListRequest(j)
         THEN i = 1 /\ log[i].marker = None
         ELSE /\ IsListResponse(i - 1) /\ log[i - 1].status = "ok"
              /\ Truthy(log[i - 1].marker)
              /\ log[i].marker = log[i - 1].marker
  /\ \A i \in 1..(Len(log) - 1) :
       (IsListResponse(i) /\ log[i].status = "ok" /\ Truthy(log[i].marker)) =>
         IsListRequest(i + 1) /\ log[i + 1].marker = log[i].marker

\* A third page is requested with the token of the second page, the first page's
\* token being another one.
ThirdPageRequested ==
  \E i \in 1..Len(log) :
    /\ IsListRequest(i) /\ log[i].marker = Token(2)
    /\ \E j \in 1..(i - 1) : IsListRequest(j) /\ log[j].marker = Token(1)

\* ------------------------------------------------------------------ C4
\* C4: once a listing request was answered with a non-success status or a body that
\* is not well-formed XML, nothing is requested after it, the caller has no listing
\* (whatever earlier pages held), nothing is selected or written, and the run has
\* ended in an error.
ListingAllOrNothing ==
  \A i \in 1..Len(log) :
    (IsListResponse(i) /\ log[i].status \in {"http_error", "bad_xml"}) =>
      /\ i = Len(log)
      /\ listing = <<>>
      /\ filtered = <<>>
      /\ files = {}
      /\ BlobRequests = {}
      /\ pc = "exit" /\ exit_code = 1

\* A later page fails after an earlier page delivered records.
LaterPageFailed ==
  /\ blobs # <<>>
  /\ Len(log) >= 4
  /\ IsListResponse(Len(log)) /\ log[Len(log)].status \in {"http_error", "bad_xml"}

\* ------------------------------------------------------------------ C6
\* C6: once the fetch of the i-th selected record failed, it is the last event of the
\* run: the files of records 1..i-1 are in place, the failed fetch was requested once,
\* no record after the i-th was requested, and the run has ended with a non-zero
\* status and without "Done.".
FetchFailureAborts ==
  \A i \in 1..Len(log) :
    (IsBlobResponse(i) /\ log[i].status # "ok") =>
      /\ i = Len(log)
      /\ pc = "exit" /\ exit_code = 1
      /\ \A k \in 1..Len(stdout) : stdout[k] # "Done."
      /\ di \in 1..Len(filtered) /\ log[i].name = filtered[di].name
      /\ \A k \in 1..(di - 1) : File(OutPath(filtered[k].name)) \in files
      /\ Cardinality({j \in BlobRequests : log[j].name = filtered[di].name}) = 1
      /\ \A k \in (di + 1)..Len(filtered) :
           \A j \in BlobRequests : log[j].name # filtered[k].name

\* The second of three selected records fails.
SecondOfThreeFailed ==
  /\ Len(filtered) = 3 /\ di = 2
  /\ Len(log) >= 1 /\ IsBlobResponse(Len(log)) /\ log[Len(log)].status # "ok"

\* ------------------------------------------------------------------ C10
\* C10: at most one request is outstanding; a blob is requested only after the last
\* page of the listing was received, and no listing request follows a blob request;
\* the blobs requested are, in order, the first records of the selection, each once,
\* and all of it when the command ends normally; the selection is in listing order.
FullySequential ==
  /\ Cardinality(outstanding) <= 1
  /\ \A i \in BlobRequests :
       /\ \A j \in (i + 1)..Len(log) : ~ IsListRequest(j)
       /\ \E j \in 1..(i - 1) :
            /\ IsListResponse(j) /\ log[j].status = "ok" /\ LastPage(log[j].marker)
            /\ \A k \in (j + 1)..(i - 1) : log[k].kind = "blob"
       /\ i > 1 /\ log[i - 1].ev = "response"
  /\ Cardinality(BlobRequests) <= Len(filtered)
  /\ \A k \in 1..Cardinality(BlobRequests) : log[NthBlobRequest(k)].name = filtered[k].name
  /\ (pc = "exit" /\ exit_code = 0 /\ command \in DownloadCommands) =>
       Cardinality(BlobRequests) = Len(filtered)
  /\ \A a, b \in 1..Len(filtered) :
       a < b => \E x, y \in 1..Len(listing) :
                  x < y /\ listing[x] = filtered[a] /\ listing[y] = filtered[b]

\* A command ends normally after fetching three blobs listed over two pages.
ThreeFetchedInOrder ==
  /\ pc = "exit" /\ exit_code = 0
  /\ Cardinality(BlobRequests) = 3
  /\ Cardinality({i \in 1..Len(log) : IsListRequest(i)}) >= 2

\* ------------------------------------------------------------------ C9
\* The proleptic Gregorian ordinal of a date (1 for 0001-01-01).
DaysBeforeYear(y) == (y - 1) * 365 + ((y - 1) \div 4) - ((y - 1) \div 100) + ((y - 1) \div 400)

RECURSIVE DaysBeforeMonth(_, _)
DaysBeforeMonth(y, m) == IF m = 1 THEN 0 ELSE DaysBeforeMonth(y, m - 1) + DaysInMonth(y, m - 1)

Ordinal(d) == DaysBeforeYear(d.year) + DaysBeforeMonth(d.year, d.month) + d.day

\* The offset written in a Last-Modified text, in seconds east of UTC.
WrittenOffset(t) == IF t.zone.text = "num" THEN t.zone.sign * (t.zone.hh * 3600 + t.zone.mm * 60) ELSE 0

\* The day of the instant a Last-Modified text names, as an ordinal: the instant is
\* the written local time less the offset, and a day is 86400 seconds.
UtcDayOf(t) ==
  Ordinal(MkDate(t.year, t.month, t.day))
  + ((t.hh * 3600 + t.mm * 60 + t.ss - WrittenOffset(t)) \div 86400)

\* C9: the date _blob_modified_date returned for the record the comprehension last
\* passed is absent when last_modified is missing or empty, the written calendar date
\* when the text has no offset, and otherwise the calendar date of the instant in
\* UTC, 86400 seconds to the day.
ModifiedDateIsUtcDate ==
  (command \in DateCommands /\ fi > 1) =>
    LET t == listing[fi - 1].last_modified
    IN IF t.form \in {"None", ""} THEN modified_date = NoDate
       ELSE /\ t.form = "rfc1123"
            /\ modified_date # NoDate
            /\ IF t.zone.text = ""
               THEN modified_date = MkDate(t.year, t.month, t.day)
               ELSE Ordinal(modified_date) = UtcDayOf(t)

\* A record written with a numeric offset got a date other than the written one.
OffsetMovedTheDay ==
  /\ command \in DateCommands /\ fi > 1
  /\ listing[fi - 1].last_modified.zone.text = "num"
  /\ modified_date # NoDate
  /\ modified_date # MkDate(listing[fi - 1].last_modified.year,
                            listing[fi - 1].last_modified.month,
                            listing[fi - 1].last_modified.day)

\* ------------------------------------------------------------------ C7
\* The blobs of the pages received up to position n of the log, in order.
RECURSIVE PagesUpTo(_)
PagesUpTo(n) ==
  IF n = 0 THEN <<>>
  ELSE PagesUpTo(n - 1)
       \o (IF IsListResponse(n) /\ log[n].status = "ok" THEN PageBlobs(log[n].page) ELSE <<>>)

\* The last event is a page without a NextMarker or with an empty one, every page
\* before it carried a non-empty one, and each request was answered.
StoppedAtFirstLastPage ==
  /\ Len(log) >= 2
  /\ IsListResponse(Len(log)) /\ LastPage(log[Len(log)].marker)
  /\ \A i \in 1..(Len(log) - 1) : IsListResponse(i) => Truthy(log[i].marker)
  /\ \A i \in 1..Len(log) : IsListRequest(i) <=> (i % 2 = 1)

ArgYear(a) == Int4(a)
ArgMonth(a) == 10 * DigitVal(a[6]) + DigitVal(a[7])
ArgDay(a) == 10 * DigitVal(a[9]) + DigitVal(a[10])

ArgConforms(a) ==
  /\ Len(a) = 10
  /\ \A i \in {1, 2, 3, 4, 6, 7, 9, 10} : IsDigit(a[i])
  /\ a[5] = "-" /\ a[8] = "-"
  /\ ArgYear(a) >= 1
  /\ ArgMonth(a) \in 1..12
  /\ ArgDay(a) >= 1 /\ ArgDay(a) <= DaysInMonth(ArgYear(a), ArgMonth(a))

ArgDate(a) == MkDate(ArgYear(a), ArgMonth(a), ArgDay(a))

Contains(msg, value) ==
  \E i \in 1..(Len(msg) - Len(value) + 1) : SubSeq(msg, i, i + Len(value) - 1) = value

NonConformingArgs == {i \in 1..Len(args) : ~ ArgConforms(args[i])}

EndBeforeStartArgs ==
  /\ command = "download-range"
  /\ NonConformingArgs = {}
  /\ DateLt(ArgDate(args[2]), ArgDate(args[1]))

\* The run ended as a usage error before anything was requested.
RejectedBeforeNetwork ==
  /\ pc = "exit" /\ exit_code = 2
  /\ exc.class = "ValueError" /\ stderr.kind = "usage"
  /\ log = <<>>

\* C2: a date-scoped command one of whose dates is not of the shape YYYY-MM-DD, or
\* whose range ends before it starts, fails with a validation error before any
\* request, the message holding a date that is not of the shape.
NonConformingDatesRejected ==
  (command \in DateCommands /\ pc # "main" /\ (NonConformingArgs # {} \/ EndBeforeStartArgs)) =>
    /\ RejectedBeforeNetwork
    /\ NonConformingArgs # {} => \E i \in NonConformingArgs : Contains(stderr.msg, args[i])

\* What holds instead: the dates strptime does not accept are rejected so, and the
\* ranges whose parsed end is before the parsed start.
UnparsedArgs == {i \in 1..Len(args) : ~ Strptime(args[i]).ok}

UnparsedDatesRejected ==
  (command \in DateCommands /\ pc # "main") =>
    /\ UnparsedArgs # {} =>
         /\ RejectedBeforeNetwork
         /\ \E i \in UnparsedArgs : Contains(stderr.msg, args[i])
    /\ (/\ UnparsedArgs = {} /\ command = "download-range"
        /\ DateLt(Strptime(args[2]).date, Strptime(args[1]).date)) =>
         RejectedBeforeNetwork /\ stderr.msg = EndBeforeStartMessage
    /\ log = <<>> => (UnparsedArgs # {} \/ pc = "list_blobs" \/ RejectedBeforeNetwork)

\* ------------------------------------------------------------------ C3
\* A record whose last_modified is there and is not an HTTP date.
Unparsable(b) == TextTruthy(b.last_modified) /\ ParseLastModified(b.last_modified).exc # ""

UnparsableListed == \E i \in 1..Len(listing) : Unparsable(listing[i])

Requested(name) == \E j \in BlobRequests : log[j].name = name

\* A command that got its listing has ended, no request having failed.
EndedAfterListing == pc = "exit" /\ log # <<>> /\ CleanRun

\* C3: a download command whose listing holds a record with an unparseable
\* last_modified runs to its normal end; the date-scoped commands have not fetched
\* that record, and download-all has.
UnparsableRecordExcluded ==
  (EndedAfterListing /\ command \in DownloadCommands /\ UnparsableListed) =>
    /\ exit_code = 0
    /\ \A i \in 1..Len(listing) :
         Unparsable(listing[i]) =>
           (Requested(listing[i].name) <=> command = "download-all")

\* ------------------------------------------------------------------ C5
\* The predicate of the date-scoped command on a record: its UTC date is defined and
\* satisfies the command's comparison.
DateDefined(b) == TextTruthy(b.last_modified) /\ ParseLastModified(b.last_modified).exc = ""

Matches(b) ==
  /\ DateDefined(b)
  /\ LET d == BlobModifiedDate(b).date
     IN CASE command = "download-since" -> DateLe(cutoff, d)
          [] command = "download-date" -> d = target
          [] command = "download-range" -> DateLe(start, d) /\ DateLe(d, end)

Matching == SelectSeq(listing, Matches)

FetchedNames == [k \in 1..Cardinality(BlobRequests) |-> log[NthBlobRequest(k)].name]

\* C5: when a date-scoped command has ended and no request failed, the blobs it
\* fetched are, in listing order, exactly the records of the listing that match.
DateFilterExact ==
  (EndedAfterListing /\ command \in DateCommands) =>
    FetchedNames = [k \in 1..Len(Matching) |-> Matching[k].name]

\* What holds instead: the same, for the listings all of whose dates parse.
DateFilterExactWhenParseable ==
  (EndedAfterListing /\ command \in DateCommands /\ ~ UnparsableListed) =>
    /\ exit_code = 0
    /\ FetchedNames = [k \in 1..Len(Matching) |-> Matching[k].name]

\* ------------------------------------------------------------------ C8
\* C8: a ValueError is reported as a usage error with its message and status 2; what
\* is reported as a usage error is a bad date or a range that ends before it starts,
\* found before any request; any other exception is a traceback with status 1.
UsageErrorsAreValidationErrors ==
  /\ exc.class = "ValueError" =>
       stderr.kind = "usage" /\ stderr.msg = exc.msg /\ exit_code = 2
  /\ stderr.kind = "usage" =>
       /\ log = <<>>
       /\ \/ stderr.msg = EndBeforeStartMessage
          \/ \E i \in 1..Len(args) : stderr.msg = InvalidDateMessage(args[i])
  /\ exc.class \notin {"", "ValueError"} =>
       stderr.kind = "traceback" /\ exit_code = 1

\* What holds instead: the first and the last of the three.
ExceptionsReportedByClass ==
  /\ exc.class = "ValueError" =>
       stderr.kind = "usage" /\ stderr.msg = exc.msg /\ exit_code = 2
  /\ exc.class \notin {"", "ValueError"} =>
       stderr.kind = "traceback" /\ exit_code = 1

====
